---- MODULE Spec2Model ----
(***************************************************************************)
(* A model of download_ebook.js: the retrying fetcher (fetchWithRetry),    *)
(* the chapter-list collector (getChapterList), the per-chapter page loop  *)
(* (downloadChapterPages), the concurrency-bounded downloader              *)
(* (downloadAllChapters) and the merger (mergeToFile).                     *)
(*                                                                         *)
(* Text is modelled as a sequence of atoms (short strings); a URL is a     *)
(* sequence of atoms too, so that resolving, stripping a query string and  *)
(* matching the next-page pattern are computed, not assumed.               *)
(* JavaScript array positions are 0-based; sequences here are 1-based, so  *)
(* delays[attempt] of the source is delays[attempt + 1] here.              *)
(***************************************************************************)
EXTENDS Integers, Sequences, FiniteSets, TLC

(***************************************************************************)
(* Bounds of the model.                                                    *)
(***************************************************************************)
MaxAttemptsBound == 3
MaxDelaysLen == 3
MaxChapters == 3
MaxConcurrency == 2
MaxLinks == 2
MaxResults == 2
MaxOptions == 2
MaxItems == 2
MaxLiveChapters == 2

\* retry.maxAttempts when the configuration gives no retry section.
DefaultMaxAttempts == 3

\* Wait durations a configuration may list (milliseconds); 0 is a duration.
DelayValues == {0, 1000, 2000}
\* Messages of the transport's errors.
ErrorMessages == {"timeout", "ECONNRESET"}
\* Response bodies of the transport.
ResponseData == {"html"}

SeqsUpTo(S, n) == UNION {[1..k -> S] : k \in 0..n}
NonEmptySeqsUpTo(S, n) == UNION {[1..k -> S] : k \in 1..n}

VARIABLES
    \* ---- fetchWithRetry ----
    retryConfig,  \* [maxAttempts, delays]
    attempt,      \* the loop variable
    lastError,    \* message of the last caught error, or Undefined
    fpc,          \* "idle" | "request" | "waiting" | "returned" | "threw"
    fres,         \* the value returned or the message of the error thrown
    waits,        \* the durations delay() was called with, in order
    failLog,      \* messages of the failed attempts, in order
    nRequests     \* number of axios.get calls made

fetchVars == <<retryConfig, attempt, lastError, fpc, fres, waits, failLog, nRequests>>

VARIABLES
    \* ---- downloadAllChapters / downloadChapterPages / mergeToFile ----
    pc,           \* where main is: "idle" | "fetchTitle" | "listing" | "start"
                  \*   | "downloading" | "collected" | "merged" (the normal end)
                  \*   | "fetchFailed" | "noChapters" | "writeFailed" (exit code 1)
    concurrency,  \* config.concurrency
    site,         \* which documents the site answers a chapter-page request
                  \* with (see SitePages): "none" | "few" | "any"
    chapters,     \* the ChapterRef list handed to downloadAllChapters
    ops,          \* per chapter: the state of its operation (see NewOp)
    queue,        \* the gate's queue of chapters not admitted yet (1-based positions)
    activeCount,  \* the gate's count of admitted, unsettled operations
    completed,    \* the shared progress counter
    progress,     \* the values of completed reported on the console, in order
    promises,     \* per chapter: the promise limit() returned
    results,      \* the array downloadAllChapters returns
    doc,          \* what mergeToFile assembled and wrote
    summary       \* the counts of main's final summary

\* chapters is written by getChapterList and read by downloadAllChapters.
dlOther == <<pc, concurrency, site, ops, queue, activeCount, completed,
             progress, promises, results, doc, summary>>
dlVars == <<chapters, dlOther>>

VARIABLES
    \* ---- getChapterList ----
    lpc,            \* "idle" | "fetchMain" | "scanning" | "returned" | "threw"
    paginationUrls, \* the index pages to scan
    pageIdx,        \* the position in paginationUrls the scan loop is at
    chapterSet,     \* the canonical keys seen
    navigation,     \* the pagination control the main page showed
    scanLog,        \* the scan loop's fetches, in order: [url, ok]
    seen            \* every link the scan was offered, in order: [url, title]

listVars == <<lpc, paginationUrls, navigation, pageIdx, chapterSet, scanLog, seen>>

(***************************************************************************)
(* Text and URLs                                                           *)
(***************************************************************************)
\* A text is a sequence of atoms. undefined and null, where a text is
\* expected, are these two sequences; the empty string is <<>>.
Undefined == <<"undefined">>
Null == <<"null">>

\* A text used as a condition: "", undefined and null are falsy.
Truthy(v) == v # <<>> /\ v # Undefined /\ v # Null

Whitespace == {" ", "\n", "\n\n"}
Digits == {"0", "1", "2", "3", "4", "5", "6", "7", "8", "9"}
\* The atoms URLs are written with.
Atoms == Digits \cup {"http://", "https://", "h", "/", "_", "?", ".html",
                      "book", "p2", "p3", "c1", "c2", "a"}

\* The first position at or after i whose atom is not in S (Len(t) + 1 if none).
SkipWhile(t, i, S) ==
    LET stops == {j \in i..Len(t) : t[j] \notin S}
    IN  IF stops = {} THEN Len(t) + 1
        ELSE CHOOSE j \in stops : \A k \in stops : j <= k

\* String.prototype.trim
Trim(t) ==
    LET keep == {j \in 1..Len(t) : t[j] \notin Whitespace}
    IN  IF keep = {} THEN <<>>
        ELSE SubSeq(t, CHOOSE j \in keep : \A k \in keep : j <= k,
                       CHOOSE j \in keep : \A k \in keep : j >= k)

AtomAt(t, i) == IF i >= 1 /\ i <= Len(t) THEN t[i] ELSE "undefined"

\* Where a match of /\s*\(?\d+\s*\/\s*\d+\)?\s*/ starting at i ends (the position
\* after it), or 0 when there is no match at i.
PaginationMatchEnd(t, i) ==
    LET a == SkipWhile(t, i, Whitespace)
        b == IF AtomAt(t, a) = "(" THEN a + 1 ELSE a
        c == SkipWhile(t, b, Digits)
        d == SkipWhile(t, c, Whitespace)
        e == SkipWhile(t, d + 1, Whitespace)
        f == SkipWhile(t, e, Digits)
        g == IF AtomAt(t, f) = ")" THEN f + 1 ELSE f
    IN  IF c > b /\ AtomAt(t, d) = "/" /\ f > e
        THEN SkipWhile(t, g, Whitespace)
        ELSE 0

RECURSIVE StripPagination(_, _)
StripPagination(t, i) ==
    IF i > Len(t) THEN <<>>
    ELSE IF PaginationMatchEnd(t, i) > 0
         THEN StripPagination(t, PaginationMatchEnd(t, i))
         ELSE <<t[i]>> \o StripPagination(t, i + 1)

cleanTitle(title) ==
    IF ~Truthy(title) THEN <<>> ELSE Trim(StripPagination(title, 1))

\* config.baseUrl: an origin.
BaseUrl == <<"http://", "h">>

IsAbsolute(url) == Len(url) > 0 /\ url[1] \in {"http://", "https://"}

\* new URL(url, base).href for a base that is an origin: a root-relative
\* reference replaces the path, any other reference is put under the root.
resolveUrl(url, baseUrl) ==
    IF ~Truthy(url) THEN Null
    ELSE IF IsAbsolute(url) THEN url
    ELSE IF url[1] = "/" THEN baseUrl \o url
    ELSE baseUrl \o <<"/">> \o url

\* resolvedNextUrl.includes("_") && resolvedNextUrl.match(/\d+_\d+\.html$/)
isNextPage(url) ==
    /\ \E j \in 1..Len(url) : url[j] = "_"
    /\ Len(url) >= 4
    /\ url[Len(url)] = ".html"
    /\ \E u \in 2..(Len(url) - 2) :
          /\ url[u] = "_"
          /\ url[u - 1] \in Digits
          /\ \A j \in (u + 1)..(Len(url) - 1) : url[j] \in Digits

\* The for loop over $nextLinks: the first link that qualifies, or null.
RECURSIVE FindNextUrl(_, _, _)
FindNextUrl(links, currentUrl, baseUrl) ==
    IF links = <<>> THEN Null
    ELSE LET nextHref == Head(links)
             resolvedNextUrl == resolveUrl(nextHref, baseUrl)
         IN  IF /\ Truthy(nextHref)
                /\ Truthy(resolvedNextUrl)
                /\ resolvedNextUrl # currentUrl
                /\ isNextPage(resolvedNextUrl)
             THEN resolvedNextUrl
             ELSE FindNextUrl(Tail(links), currentUrl, baseUrl)

(***************************************************************************)
(* fetchWithRetry                                                          *)
(***************************************************************************)
NoError == "undefined"

\* delays[attempt] || delays[delays.length - 1], delays being non-empty:
\* delays[attempt] is falsy when attempt is past the end (undefined) or the
\* entry is 0.
DelayFor(delays, att) ==
    IF att < Len(delays) /\ delays[att + 1] # 0 THEN delays[att + 1]
    ELSE delays[Len(delays)]

\* The message of the Error thrown after the last attempt.
FetchErrorMessage(maxAttempts, lastMessage) ==
    <<"request failed, retried ", ToString(maxAttempts), " times: ", lastMessage>>

KeepFirstError(prev, msg) == IF prev = NoError THEN msg ELSE prev
CaughtError(prev, msg) == msg

RetryConfigs ==
    [maxAttempts : 1..MaxAttemptsBound,
     delays : NonEmptySeqsUpTo(DelayValues, MaxDelaysLen)]

FetchIdle ==
    /\ retryConfig = [maxAttempts |-> 1, delays |-> <<0>>]
    /\ attempt = 0
    /\ lastError = NoError
    /\ fpc = "idle"
    /\ fres = <<>>
    /\ waits = <<>>
    /\ failLog = <<>>
    /\ nRequests = 0

\* The call: the loop is entered (maxAttempts >= 1) and the first GET is sent.
FetchStart ==
    /\ retryConfig \in RetryConfigs
    /\ attempt = 0
    /\ lastError = NoError
    /\ fpc = "request"
    /\ fres = <<>>
    /\ waits = <<>>
    /\ failLog = <<>>
    /\ nRequests = 1

\* axios.get resolves: return response.data.
AttemptSucceeds ==
    /\ fpc = "request"
    /\ \E data \in ResponseData : fres' = <<data>>
    /\ fpc' = "returned"
    /\ UNCHANGED <<retryConfig, attempt, lastError, waits, failLog, nRequests>>

\* axios.get rejects: the catch block, then either delay() or the loop's exit.
AttemptFails ==
    /\ fpc = "request"
    /\ \E msg \in ErrorMessages :
        /\ lastError' = CaughtError(lastError, msg)
        /\ failLog' = Append(failLog, msg)
        /\ IF attempt < retryConfig.maxAttempts - 1
           THEN /\ waits' = Append(waits, DelayFor(retryConfig.delays, attempt))
                /\ fpc' = "waiting"
                /\ UNCHANGED <<attempt, fres>>
           ELSE /\ attempt' = attempt + 1
                /\ fpc' = "threw"
                /\ fres' = FetchErrorMessage(retryConfig.maxAttempts, lastError')
                /\ UNCHANGED waits
    /\ UNCHANGED <<retryConfig, nRequests>>

\* delay() resolves: attempt++, the loop guard, the next GET.
DelayElapses ==
    /\ fpc = "waiting"
    /\ attempt' = attempt + 1
    /\ IF attempt + 1 < retryConfig.maxAttempts
       THEN /\ fpc' = "request"
            /\ nRequests' = nRequests + 1
            /\ UNCHANGED fres
       ELSE /\ fpc' = "threw"
            /\ fres' = FetchErrorMessage(retryConfig.maxAttempts, lastError)
            /\ UNCHANGED nRequests
    /\ UNCHANGED <<retryConfig, lastError, waits, failLog>>

(***************************************************************************)
(* Chapters, and the chapter pages the site may answer with                 *)
(***************************************************************************)
ChapterUrl(i) == <<"http://", "h", "/", ToString(i), ".html">>
ChapterList(n) == [i \in 1..n |-> [url |-> ChapterUrl(i), title |-> <<"Ch", ToString(i)>>]]

\* What an anchor matched by the next-page selector may carry as its href.
Hrefs ==
    { Undefined,
      <<"/", "1", ".html">>,
      <<"/", "1", "_", "2", ".html">>,
      <<"http://", "h", "/", "1", "_", "2", ".html">>,
      <<"/", "1", "_", "3", ".html">> }
PageTitles == { <<>>, <<"T">>, <<"U", " ", "(", "1", "/", "2", ")">>, <<"1", "/", "2">> }
PageBodies == { <<>>, <<"Part1">>, <<" ", "Part2", " ">> }

\* Every document a chapter page may be, for the study of one chapter.
ChapterPages ==
    [title : PageTitles, body : PageBodies, next : SeqsUpTo(Hrefs, MaxLinks)]

\* A few documents, for the study of several chapters at once.
FewPages ==
    { [title |-> <<"T">>, body |-> <<"Part1">>, next |-> <<>>],
      [title |-> <<>>, body |-> <<>>, next |-> <<>>],
      [title |-> <<"T">>, body |-> <<"Part2">>, next |-> << <<"/", "1", "_", "2", ".html">> >>] }

\* Two pages, one of them linking to a second page of its chapter.
TwoPages ==
    { [title |-> <<>>, body |-> <<>>, next |-> <<>>],
      [title |-> <<"T">>, body |-> <<"Part2">>, next |-> << <<"/", "1", "_", "2", ".html">> >>] }

SitePages(which) ==
    IF which = "any" THEN ChapterPages
    ELSE IF which = "few" THEN FewPages
    ELSE IF which = "two" THEN TwoPages
    ELSE {}

(***************************************************************************)
(* downloadChapterPages: the page-following loop of one chapter            *)
(***************************************************************************)
\* The sentinel title of a chapter whose pages gave none.
UnknownTitle == <<"unknown title">>
NoReturn == [title |-> Undefined, content |-> Undefined]

\* The locals of one call, with the record of what it did:
\*   fetched   the URLs handed to fetchWithRetry, in order
\*   bodies    the body text extracted from each page fetched, in order
\*   titles    the cleaned title text of each page fetched, in order
\*   failedAt  0, or the iteration whose fetch failed; failure is its message
\*   reported  the value of completed its progress line showed (0: none yet)
NewOp(url) ==
    [phase |-> "queued", title |-> <<>>, content |-> <<>>, currentUrl |-> url,
     visitedUrls |-> {}, iterations |-> 0, fetched |-> <<>>, bodies |-> <<>>,
     titles |-> <<>>, failedAt |-> 0, failure |-> Undefined, ret |-> NoReturn, thrown |-> Undefined,
     reported |-> 0]

\* return { title: title || unknown, content: content.trim() }
ReturnFrom(st) ==
    [st EXCEPT !.phase = "returned",
               !.ret = [title |-> IF Truthy(st.title) THEN st.title ELSE UnknownTitle,
                        content |-> Trim(st.content)]]

LoopGuardNoCycleCheck(st) == Truthy(st.currentUrl)
\* while (currentUrl && !visitedUrls.has(currentUrl))
LoopGuard(st) == Truthy(st.currentUrl) /\ st.currentUrl \notin st.visitedUrls

\* The loop's guard and, when it holds, the iteration up to its await.
LoopHead(st) ==
    IF LoopGuard(st)
    THEN [st EXCEPT !.phase = "fetching",
                    !.visitedUrls = @ \cup {st.currentUrl},
                    !.iterations = @ + 1,
                    !.fetched = Append(@, st.currentUrl)]
    ELSE ReturnFrom(st)

AppendContentNoSeparator(content, pageContent) == content \o pageContent
\* if (pageContent) content += (content ? "\n\n" : "") + pageContent
AppendContent(content, pageContent) ==
    IF Truthy(pageContent)
    THEN content \o (IF Truthy(content) THEN <<"\n\n">> ELSE <<>>) \o pageContent
    ELSE content

\* fetchWithRetry returned this page: the rest of the try block, then the guard.
PageFetched(st, page) ==
    LoopHead([st EXCEPT
        !.title = IF ~Truthy(st.title) THEN cleanTitle(Trim(page.title)) ELSE @,
        !.content = AppendContent(@, Trim(page.body)),
        !.bodies = Append(@, Trim(page.body)),
        !.titles = Append(@, cleanTitle(Trim(page.title))),
        !.currentUrl = FindNextUrl(page.next, st.currentUrl, BaseUrl)])

PageFailedDiscarding(st, message) ==
    ReturnFrom([st EXCEPT !.failedAt = st.iterations, !.failure = message,
                          !.content = <<>>])
\* fetchWithRetry threw: the catch block logs and breaks.
PageFailed(st, message) ==
    ReturnFrom([st EXCEPT !.failedAt = st.iterations, !.failure = message])

(***************************************************************************)
(* downloadAllChapters                                                     *)
(***************************************************************************)
Pending == [status |-> "pending"]

CanAdmitOneMore(active, limit) == active <= limit
\* The gate's test before it starts a queued operation.
CanAdmit(active, limit) == active < limit

AdmitOnePerCall(active, limit, waiting) ==
    IF CanAdmit(active, limit) /\ waiting > 0 THEN 1 ELSE 0
\* How many queued operations the gate starts, given the count in flight.
RECURSIVE AdmitCount(_, _, _)
AdmitCount(active, limit, waiting) ==
    IF CanAdmit(active, limit) /\ waiting > 0
    THEN 1 + AdmitCount(active + 1, limit, waiting - 1)
    ELSE 0

AdmitFirstOnly(o, q, k) ==
    [i \in DOMAIN o |->
        IF k >= 1 /\ q[1] = i THEN LoopHead(o[i]) ELSE o[i]]
\* ops with the first k chapters of the queue q started.
Admit(o, q, k) ==
    [i \in DOMAIN o |->
        IF \E j \in 1..k : q[j] = i THEN LoopHead(o[i]) ELSE o[i]]

SuccessResultOneBased(i, ret) ==
    [index |-> i,
     title |-> IF Truthy(ret.title) THEN ret.title ELSE chapters[i].title,
     content |-> ret.content, success |-> TRUE, error |-> Undefined,
     ref |-> chapters[i].url]
\* The object the try branch returns; ref records which ChapterRef it is of.
SuccessResult(i, ret) ==
    [index |-> i - 1,
     title |-> IF Truthy(ret.title) THEN ret.title ELSE chapters[i].title,
     content |-> ret.content, success |-> TRUE, error |-> Undefined,
     ref |-> chapters[i].url]

\* The object the catch branch (and the rejected branch of the forEach) returns.
FailureResult(i, message) ==
    [index |-> i - 1, title |-> chapters[i].title, content |-> <<>>,
     success |-> FALSE, error |-> message, ref |-> chapters[i].url]

UnknownError == <<"unknown error">>

\* doc before mergeToFile has run.
NoDoc == [banner |-> <<>>, blocks |-> <<>>, successCount |-> 0, failCount |-> 0]
\* summary before main has printed it.
NoSummary == [total |-> 0, successCount |-> 0, failCount |-> 0]

\* results.filter((r) => r.success).length and the two counts beside it.
Summary(res) ==
    LET successCount == Cardinality({i \in DOMAIN res : res[i].success})
    IN  [total |-> Len(res), successCount |-> successCount,
         failCount |-> Len(res) - successCount]

\* The downloader's variables (chapters apart) before main reaches it.
DlUnused ==
    /\ pc = "idle"
    /\ concurrency = 1
    /\ site = "none"
    /\ ops = <<>>
    /\ queue = <<>>
    /\ activeCount = 0
    /\ completed = 0
    /\ progress = <<>>
    /\ promises = <<>>
    /\ results = <<>>
    /\ doc = NoDoc
    /\ summary = NoSummary

DlIdle == chapters = <<>> /\ DlUnused

\* chapters.map(limit(...)): every operation is queued, and the gate starts
\* the first ones, each running to its first await.
DownloadAllChaptersCall ==
    /\ pc = "start"
    /\ pc' = "downloading"
    /\ LET n == Len(chapters)
           k == AdmitCount(0, concurrency, n)
           q == [i \in 1..n |-> i]
       IN  /\ ops' = Admit([i \in 1..n |-> NewOp(chapters[i].url)], q, k)
           /\ queue' = SubSeq(q, k + 1, n)
           /\ activeCount' = k
           /\ promises' = [i \in 1..n |-> Pending]
    /\ UNCHANGED <<concurrency, site, chapters, completed, progress, results, doc, summary>>

\* The fetch of chapter i's current page settles, and the loop runs on to its
\* next await or to its return.
PageStep(i) ==
    /\ pc = "downloading"
    /\ ops[i].phase = "fetching"
    /\ \/ \E page \in SitePages(site) : ops' = [ops EXCEPT ![i] = PageFetched(@, page)]
       \/ \E msg \in ErrorMessages :
            ops' = [ops EXCEPT ![i] =
                       PageFailed(@, FetchErrorMessage(DefaultMaxAttempts, msg))]
    /\ UNCHANGED <<pc, concurrency, site, chapters, queue, activeCount, completed,
                   progress, promises, results, doc, summary>>

CountedTwice(count) == count + 2
\* completed++
NextCompleted(count) == count + 1

\* downloadChapterPages has settled for chapter i: the rest of the limited
\* function (counter, log line, result), then the gate frees the slot and
\* starts what it can from its queue.
Settle(i) ==
    /\ pc = "downloading"
    /\ ops[i].phase \in {"returned", "threw"}
    /\ completed' = NextCompleted(completed)
    /\ progress' = Append(progress, completed')
    /\ promises' = [promises EXCEPT ![i] =
           [status |-> "fulfilled",
            value |-> IF ops[i].phase = "returned"
                      THEN SuccessResult(i, ops[i].ret)
                      ELSE FailureResult(i, ops[i].thrown)]]
    /\ LET k == AdmitCount(activeCount - 1, concurrency, Len(queue))
       IN  /\ ops' = Admit([ops EXCEPT ![i].phase = "settled", ![i].reported = completed'],
                        queue, k)
           /\ queue' = SubSeq(queue, k + 1, Len(queue))
           /\ activeCount' = activeCount - 1 + k
    /\ UNCHANGED <<pc, concurrency, site, chapters, results, doc, summary>>

\* Promise.allSettled resolves; the forEach fills results; return results.
Collect ==
    /\ pc = "downloading"
    /\ \A i \in DOMAIN promises : promises[i].status # "pending"
    /\ results' = [i \in DOMAIN promises |->
                      IF promises[i].status = "fulfilled"
                      THEN promises[i].value
                      ELSE FailureResult(i, UnknownError)]
    /\ pc' = "collected"
    /\ UNCHANGED <<concurrency, site, chapters, ops, queue, activeCount, completed,
                   progress, promises, doc, summary>>

(***************************************************************************)
(* mergeToFile                                                             *)
(***************************************************************************)
BookTitle == <<"Book">>
\* "=".repeat(80)
Rule == "===="

CompareDescending(a, b) == b.index - a.index
\* The comparator handed to sort.
CompareIndex(a, b) == a.index - b.index

\* Array.prototype.sort is stable: x goes after the elements that do not
\* compare greater than it.
RECURSIVE InsertSorted(_, _)
InsertSorted(x, s) ==
    IF s = <<>> THEN <<x>>
    ELSE IF CompareIndex(Head(s), x) <= 0
         THEN <<Head(s)>> \o InsertSorted(x, Tail(s))
         ELSE <<x>> \o s

RECURSIVE SortChapters(_)
SortChapters(s) ==
    IF s = <<>> THEN <<>>
    ELSE InsertSorted(s[Len(s)], SortChapters(SubSeq(s, 1, Len(s) - 1)))

BlockEnd == <<"\n\n", Rule, "\n\n">>

RendersWithContentIgnoringSuccess(chapter) == Truthy(chapter.content)
\* The test of the loop body: success and a non-empty content.
RendersWithContent(chapter) == chapter.success /\ Truthy(chapter.content)

\* One iteration of the loop: the text appended for a chapter; ref records
\* which result it was made from.
ChapterBlock(chapter) ==
    [text |-> IF RendersWithContent(chapter)
              THEN chapter.title \o <<"\n">> \o chapter.content \o BlockEnd
              ELSE chapter.title \o <<"\n[download failed: ">>
                   \o (IF Truthy(chapter.error) THEN chapter.error ELSE UnknownError)
                   \o <<"]">> \o BlockEnd,
     ref |-> chapter.ref]

\* mergeToFile(results, bookTitle), to the end of fs.writeFile; when the file
\* is written main goes on to its summary, else the error ends the run.
MergeToFile ==
    /\ pc = "collected"
    /\ LET sortedChapters == SortChapters(results)
       IN  doc' = [banner |-> <<Rule, "\n">> \o BookTitle \o <<"\n", Rule, "\n\n\n">>,
                   blocks |-> [k \in DOMAIN sortedChapters |->
                                  ChapterBlock(sortedChapters[k])],
                   successCount |-> Cardinality({k \in DOMAIN sortedChapters :
                                       RendersWithContent(sortedChapters[k])}),
                   failCount |-> Cardinality({k \in DOMAIN sortedChapters :
                                       ~RendersWithContent(sortedChapters[k])})]
    /\ \E written \in BOOLEAN :
          /\ pc' = IF written THEN "merged" ELSE "writeFailed"
          /\ summary' = IF written THEN Summary(results) ELSE summary
    /\ UNCHANGED <<concurrency, site, chapters, ops, queue, activeCount, completed,
                   progress, promises, results>>

(***************************************************************************)
(* Index pages the site may answer with                                    *)
(***************************************************************************)
\* The value attribute of an option of the pagination control.
OptionValues ==
    { Undefined, <<"/", "book">>, <<"/", "p2">>, <<"http://", "h", "/", "p2">>, <<"p3">> }
\* What the main page may show: no control, or a control with options.
Navigations ==
    { [control |-> FALSE, options |-> <<>>] }
        \cup [control : {TRUE}, options : SeqsUpTo(OptionValues, MaxOptions)]

\* The items of a chapter list: a link's href and text.
Items ==
    { [href |-> <<"/", "c1">>, title |-> <<"A">>],
      [href |-> <<"/", "c1", "?", "a">>, title |-> <<" ", "B">>],
      [href |-> <<"c2">>, title |-> <<"A">>],
      [href |-> <<"/", "c1">>, title |-> <<" ">>],
      [href |-> Undefined, title |-> <<"A">>] }
ItemLists == SeqsUpTo(Items, MaxItems)

\* A few index pages, for the study of the whole run.
FewNavigations ==
    { [control |-> FALSE, options |-> <<>>],
      [control |-> TRUE, options |-> << <<"/", "p2">> >>] }
FewItemLists ==
    { <<>>,
      << [href |-> <<"/", "c1">>, title |-> <<"A">>] >>,
      << [href |-> <<"/", "c1", "?", "a">>, title |-> <<" ", "B">>],
         [href |-> <<"c2">>, title |-> <<"A">>] >> }

\* Controls whose options are two further index pages, in any order.
ListNavigations ==
    { [control |-> FALSE, options |-> <<>>] }
        \cup [control : {TRUE},
              options : SeqsUpTo({<<"/", "p2">>, <<"p3">>}, MaxOptions)]

SiteNavigations(which) ==
    IF which = "few" THEN FewNavigations
    ELSE IF which = "nav" THEN Navigations
    ELSE ListNavigations
SiteItemLists(which) ==
    IF which \in {"few", "nav"} THEN FewItemLists ELSE ItemLists

(***************************************************************************)
(* getChapterList                                                          *)
(***************************************************************************)
MainUrl == <<"http://", "h", "/", "book">>

FullUrlAsKey(fullUrl) == fullUrl
\* fullUrl.split("?")[0]
UrlKey(fullUrl) == SubSeq(fullUrl, 1, SkipWhile(fullUrl, 1, {a \in Atoms : a # "?"}) - 1)

\* The each() over the pagination control's options: paginationUrls grown by
\* the resolved values not in it yet.
RECURSIVE AddOptionsKeepingDuplicates(_, _)
AddOptionsKeepingDuplicates(urls, values) ==
    IF values = <<>> THEN urls
    ELSE LET value == Head(values)
             fullUrl == resolveUrl(value, BaseUrl)
         IN  IF Truthy(value) /\ Truthy(fullUrl)
             THEN AddOptionsKeepingDuplicates(Append(urls, fullUrl), Tail(values))
             ELSE AddOptionsKeepingDuplicates(urls, Tail(values))
RECURSIVE AddOptions(_, _)
AddOptions(urls, values) ==
    IF values = <<>> THEN urls
    ELSE LET value == Head(values)
             fullUrl == resolveUrl(value, BaseUrl)
         IN  IF /\ Truthy(value)
                /\ Truthy(fullUrl)
                /\ \A j \in DOMAIN urls : urls[j] # fullUrl
             THEN AddOptions(Append(urls, fullUrl), Tail(values))
             ELSE AddOptions(urls, Tail(values))

\* The each() over one index page's items: [list, set] grown by the links
\* whose key is new.
RECURSIVE AddChapters(_, _)
AddChapters(acc, items) ==
    IF items = <<>> THEN acc
    ELSE LET href == Head(items).href
             title == Trim(Head(items).title)
             fullUrl == resolveUrl(href, BaseUrl)
             urlKey == UrlKey(fullUrl)
         IN  IF Truthy(href) /\ Truthy(title) /\ urlKey \notin acc.set
             THEN AddChapters([list |-> Append(acc.list, [url |-> fullUrl, title |-> title]),
                               set |-> acc.set \cup {urlKey}],
                              Tail(items))
             ELSE AddChapters(acc, Tail(items))

\* The links of one page that have both an href and a title, resolved, in
\* document order: what the each() above is offered.
RECURSIVE LinksOf(_)
LinksOf(items) ==
    IF items = <<>> THEN <<>>
    ELSE (IF Truthy(Head(items).href) /\ Truthy(Trim(Head(items).title))
          THEN << [url |-> resolveUrl(Head(items).href, BaseUrl),
                   title |-> Trim(Head(items).title)] >>
          ELSE <<>>) \o LinksOf(Tail(items))

StopAfterFailure(idx, n) == n + 1
\* The catch block of the scan loop only logs: the for-of goes on to the
\* next page.
ContinueAfterFailure(idx, n) == idx + 1

\* navigation before the main page has arrived.
NoNavigation == [control |-> FALSE, options |-> <<>>]

ListIdle ==
    /\ lpc = "idle"
    /\ paginationUrls = <<>>
    /\ navigation = NoNavigation
    /\ pageIdx = 0
    /\ chapterSet = {}
    /\ scanLog = <<>>
    /\ seen = <<>>

\* The call: chapters = [], and the main page is requested.
GetChapterListCall ==
    /\ lpc = "fetchMain"
    /\ paginationUrls = <<>>
    /\ navigation = NoNavigation
    /\ pageIdx = 0
    /\ chapterSet = {}
    /\ scanLog = <<>>
    /\ seen = <<>>
    /\ chapters = <<>>

\* The main page arrives: the pagination control is read and the scan loop
\* requests its first page.
MainPageFetched ==
    /\ lpc = "fetchMain"
    /\ \E nav \in SiteNavigations(site) :
          /\ navigation' = nav
          /\ paginationUrls' = IF nav.control
                                THEN AddOptions(<<MainUrl>>, nav.options)
                                ELSE <<MainUrl>>
    /\ pageIdx' = 1
    /\ lpc' = "scanning"
    /\ UNCHANGED <<chapters, chapterSet, scanLog, seen>>

\* The main page cannot be fetched: the error leaves getChapterList.
MainPageFailed ==
    /\ lpc = "fetchMain"
    /\ lpc' = "threw"
    /\ UNCHANGED <<chapters, paginationUrls, navigation, pageIdx, chapterSet, scanLog, seen>>

AfterPage(idx) ==
    /\ pageIdx' = idx
    /\ lpc' = IF idx <= Len(paginationUrls) THEN "scanning" ELSE "returned"

\* The page the loop is at arrives: its links are collected, and the loop
\* requests the next page or getChapterList returns.
IndexPageFetched ==
    /\ lpc = "scanning"
    /\ \E items \in SiteItemLists(site) :
          LET acc == AddChapters([list |-> chapters, set |-> chapterSet], items)
          IN  /\ chapters' = acc.list
              /\ chapterSet' = acc.set
              /\ seen' = seen \o LinksOf(items)
    /\ scanLog' = Append(scanLog, [url |-> paginationUrls[pageIdx], ok |-> TRUE])
    /\ AfterPage(pageIdx + 1)
    /\ UNCHANGED <<paginationUrls, navigation>>

\* The page the loop is at cannot be fetched.
IndexPageFailed ==
    /\ lpc = "scanning"
    /\ scanLog' = Append(scanLog, [url |-> paginationUrls[pageIdx], ok |-> FALSE])
    /\ AfterPage(ContinueAfterFailure(pageIdx, Len(paginationUrls)))
    /\ UNCHANGED <<chapters, paginationUrls, navigation, chapterSet, seen>>

vars == <<fetchVars, dlVars, listVars>>

(***************************************************************************)
(* Specifications                                                          *)
(***************************************************************************)
\* fetchWithRetry alone, over every retry configuration within the bounds.
InitFetch == FetchStart /\ DlIdle /\ ListIdle
NextFetch ==
    \/ AttemptSucceeds /\ UNCHANGED <<dlVars, listVars>>
    \/ AttemptFails /\ UNCHANGED <<dlVars, listVars>>
    \/ DelayElapses /\ UNCHANGED <<dlVars, listVars>>
SpecFetch == InitFetch /\ [][NextFetch]_vars

DlStart ==
    /\ pc = "start"
    /\ ops = <<>>
    /\ queue = <<>>
    /\ activeCount = 0
    /\ completed = 0
    /\ progress = <<>>
    /\ promises = <<>>
    /\ results = <<>>
    /\ doc = NoDoc
    /\ summary = NoSummary

NextDl ==
    \/ DownloadAllChaptersCall /\ UNCHANGED <<fetchVars, listVars>>
    \/ \E i \in DOMAIN ops : PageStep(i) /\ UNCHANGED <<fetchVars, listVars>>
    \/ \E i \in DOMAIN ops : Settle(i) /\ UNCHANGED <<fetchVars, listVars>>
    \/ Collect /\ UNCHANGED <<fetchVars, listVars>>
    \/ MergeToFile /\ UNCHANGED <<fetchVars, listVars>>

\* downloadAllChapters and mergeToFile as main calls them, for every chapter
\* count and cap within the bounds.
Init ==
    /\ FetchIdle
    /\ ListIdle
    /\ DlStart
    /\ concurrency \in 1..MaxConcurrency
    /\ \E n \in 1..MaxChapters : chapters = ChapterList(n)
    /\ site = "few"
Spec == Init /\ [][NextDl]_vars

\* The same over a site of two pages, every request being answered in the end
\* and every continuation that is ready being run by the event loop.
InitLive ==
    /\ FetchIdle
    /\ ListIdle
    /\ DlStart
    /\ concurrency \in 1..MaxConcurrency
    /\ \E n \in 1..MaxLiveChapters : chapters = ChapterList(n)
    /\ site = "two"
SpecLive == InitLive /\ [][NextDl]_vars /\ WF_vars(NextDl)

\* The same pipeline for one chapter, the site answering with any document.
InitChapter ==
    /\ FetchIdle
    /\ ListIdle
    /\ DlStart
    /\ concurrency = 1
    /\ chapters = ChapterList(1)
    /\ site = "any"
SpecChapter == InitChapter /\ [][NextDl]_vars

\* mergeToFile applied to any result list within the bounds.
MergeInputs ==
    [index : {0, 1, 2}, title : {<<"Ch">>}, content : {<<>>, <<"Part1">>},
     success : BOOLEAN, error : {Undefined, <<"timeout">>}]
InitMerge ==
    /\ FetchIdle
    /\ ListIdle
    /\ pc = "collected"
    /\ concurrency = 1
    /\ site = "none"
    /\ chapters = <<>>
    /\ ops = <<>>
    /\ queue = <<>>
    /\ activeCount = 0
    /\ completed = 0
    /\ progress = <<>>
    /\ promises = <<>>
    /\ doc = NoDoc
    /\ summary = NoSummary
    /\ \E given \in SeqsUpTo(MergeInputs, MaxResults) :
          results = [i \in DOMAIN given |->
                        [index |-> given[i].index, title |-> given[i].title,
                         content |-> given[i].content, success |-> given[i].success,
                         error |-> given[i].error, ref |-> <<"result", ToString(i)>>]]
NextMerge == MergeToFile /\ UNCHANGED <<fetchVars, listVars>>
SpecMerge == InitMerge /\ [][NextMerge]_vars

\* getChapterList alone, the site answering each request with any index page
\* and the main page announcing up to two further index pages.
InitList == FetchIdle /\ DlUnused /\ GetChapterListCall
NextList ==
    \/ MainPageFetched /\ UNCHANGED <<fetchVars, dlOther>>
    \/ MainPageFailed /\ UNCHANGED <<fetchVars, dlOther>>
    \/ IndexPageFetched /\ UNCHANGED <<fetchVars, dlOther>>
    \/ IndexPageFailed /\ UNCHANGED <<fetchVars, dlOther>>
SpecList == InitList /\ [][NextList]_vars

\* getChapterList alone, the main page showing any pagination control.
InitNav ==
    /\ FetchIdle
    /\ GetChapterListCall
    /\ pc = "idle"
    /\ concurrency = 1
    /\ site = "nav"
    /\ ops = <<>>
    /\ queue = <<>>
    /\ activeCount = 0
    /\ completed = 0
    /\ progress = <<>>
    /\ promises = <<>>
    /\ results = <<>>
    /\ doc = NoDoc
    /\ summary = NoSummary
SpecNav == InitNav /\ [][NextList]_vars

(***************************************************************************)
(* main, from the request for the book's title to the exit                 *)
(***************************************************************************)
\* The main page arrives for extractBookTitle, and main calls getChapterList,
\* which requests the main page again.
BookPageFetched ==
    /\ pc = "fetchTitle"
    /\ pc' = "listing"
    /\ lpc' = "fetchMain"
    /\ UNCHANGED <<chapters, paginationUrls, navigation, pageIdx, chapterSet,
                   scanLog, seen>>
    /\ UNCHANGED <<concurrency, site, ops, queue, activeCount, completed, progress,
                   promises, results, doc, summary>>

\* The main page cannot be fetched for the title: main's catch ends the run.
BookPageFailed ==
    /\ pc = "fetchTitle"
    /\ pc' = "fetchFailed"
    /\ UNCHANGED <<concurrency, site, ops, queue, activeCount, completed, progress,
                   promises, results, doc, summary>>
    /\ UNCHANGED <<chapters, listVars>>

ListDoneEarly == lpc \in {"scanning", "returned"}
\* await getChapterList(args.url, config) has its value.
ListDone == lpc = "returned"

NeverExits(list) == "start"
\* if (chapters.length === 0) { ... process.exit(1) }, else downloadAllChapters.
AfterChapterList(list) == IF Len(list) = 0 THEN "noChapters" ELSE "start"

\* getChapterList has returned to main.
ChapterListReturned ==
    /\ pc = "listing"
    /\ ListDone
    /\ pc' = AfterChapterList(chapters)
    /\ UNCHANGED <<concurrency, site, ops, queue, activeCount, completed, progress,
                   promises, results, doc, summary>>
    /\ UNCHANGED <<chapters, listVars>>

\* The error of getChapterList reaches main's catch.
ChapterListThrew ==
    /\ pc = "listing"
    /\ lpc = "threw"
    /\ pc' = "fetchFailed"
    /\ UNCHANGED <<concurrency, site, ops, queue, activeCount, completed, progress,
                   promises, results, doc, summary>>
    /\ UNCHANGED <<chapters, listVars>>

\* The run has ended with process.exit(1).
Fatal == pc \in {"fetchFailed", "noChapters", "writeFailed"}

\* The whole run over a site of a few index pages and a few chapter pages.
InitMain ==
    /\ FetchIdle
    /\ ListIdle
    /\ chapters = <<>>
    /\ pc = "fetchTitle"
    /\ concurrency \in 1..MaxConcurrency
    /\ site = "few"
    /\ ops = <<>>
    /\ queue = <<>>
    /\ activeCount = 0
    /\ completed = 0
    /\ progress = <<>>
    /\ promises = <<>>
    /\ results = <<>>
    /\ doc = NoDoc
    /\ summary = NoSummary
NextMain ==
    \/ BookPageFetched /\ UNCHANGED fetchVars
    \/ BookPageFailed /\ UNCHANGED fetchVars
    \/ MainPageFetched /\ UNCHANGED <<fetchVars, dlOther>>
    \/ MainPageFailed /\ UNCHANGED <<fetchVars, dlOther>>
    \/ IndexPageFetched /\ UNCHANGED <<fetchVars, dlOther>>
    \/ IndexPageFailed /\ UNCHANGED <<fetchVars, dlOther>>
    \/ ChapterListReturned /\ UNCHANGED fetchVars
    \/ ChapterListThrew /\ UNCHANGED fetchVars
    \/ DownloadAllChaptersCall /\ UNCHANGED <<fetchVars, listVars>>
    \/ \E i \in DOMAIN ops : PageStep(i) /\ UNCHANGED <<fetchVars, listVars>>
    \/ \E i \in DOMAIN ops : Settle(i) /\ UNCHANGED <<fetchVars, listVars>>
    \/ Collect /\ UNCHANGED <<fetchVars, listVars>>
    \/ MergeToFile /\ UNCHANGED <<fetchVars, listVars>>
SpecMain == InitMain /\ [][NextMain]_vars

(***************************************************************************)
(* Properties                                                              *)
(***************************************************************************)
\* The chapter operations the gate has admitted and that have not settled.
InFlight == {i \in DOMAIN ops : ops[i].phase \in {"fetching", "returned", "threw"}}

\* C1: in every reachable state of downloadAllChapters, the number of chapter
\* operations admitted by the gate and not yet settled is at most the
\* configured cap.
C1_ConcurrencyBound == Cardinality(InFlight) <= concurrency

\* C1 witness: the cap is 2, one of three operations has settled, and the
\* third, which had to wait, runs beside the other.
C1_Witness ==
    /\ pc = "downloading"
    /\ concurrency = 2
    /\ Cardinality(InFlight) = 2
    /\ completed = 1
    /\ Len(ops) = 3
    /\ ops[3].phase = "fetching"

\* C2: whatever the order in which the chapter downloads completed, the
\* block at position i of the document mergeToFile wrote is the block of
\* the ChapterRef at position i of the chapter list.
C2_MergedInDiscoveryOrder ==
    pc = "merged" =>
        /\ Len(doc.blocks) = Len(chapters)
        /\ \A i \in DOMAIN chapters : doc.blocks[i].ref = chapters[i].url

\* C2 witness: three chapters were merged, the second having completed
\* first and the first last.
C2_Witness ==
    /\ pc = "merged"
    /\ Len(chapters) = 3
    /\ ops[2].reported = 1
    /\ ops[1].reported = 3

\* The entries of a link sequence whose canonical key no earlier entry has.
FirstOfEachKey(links) ==
    LET first == {j \in DOMAIN links :
                     \A k \in 1..(j - 1) :
                        SubSeq(links[k].url, 1,
                               SkipWhile(links[k].url, 1, Atoms \ {"?"}) - 1)
                        # SubSeq(links[j].url, 1,
                                 SkipWhile(links[j].url, 1, Atoms \ {"?"}) - 1)}
        F[n \in 0..Len(links)] ==
            IF n = 0 THEN <<>>
            ELSE IF n \in first THEN Append(F[n - 1], links[n]) ELSE F[n - 1]
    IN  F[Len(links)]

\* C3: when getChapterList returns, the list holds, for each canonical key
\* (URL up to the query string) among the links scanned, exactly the first
\* link seen with that key (its URL and title), in first-seen order.
C3_DedupFirstSeen ==
    lpc = "returned" => chapters = FirstOfEachKey(seen)

\* C3 witness: two index pages were scanned, a later link repeated the key
\* of an earlier one with another URL, and two chapters were kept.
C3_Witness ==
    /\ lpc = "returned"
    /\ Len(scanLog) = 2
    /\ Len(chapters) = 2
    /\ \E j, k \in DOMAIN seen :
          /\ j < k
          /\ seen[j].url = <<"http://", "h", "/", "c1">>
          /\ seen[k].url = <<"http://", "h", "/", "c1", "?", "a">>

\* C4: a request that fails k times and then succeeds has waited exactly k
\* times, the i-th wait being the i-th entry of delays.
C4_WaitsAreTheDelays ==
    fpc = "returned" =>
        /\ Len(waits) = Len(failLog)
        /\ \A i \in DOMAIN waits :
              i <= Len(retryConfig.delays) => waits[i] = retryConfig.delays[i]

\* C5: in downloadChapterPages no URL is fetched twice within one chapter,
\* the number of loop iterations is the number of distinct URLs visited, and
\* a next-page link that resolves to a visited URL ends the loop.
C5_CycleSafe ==
    \A i \in DOMAIN ops :
        /\ \A a, b \in DOMAIN ops[i].fetched :
              a # b => ops[i].fetched[a] # ops[i].fetched[b]
        /\ ops[i].iterations = Cardinality(ops[i].visitedUrls)
        /\ ops[i].iterations = Len(ops[i].fetched)
        /\ (ops[i].phase = "fetching" =>
               ops[i].currentUrl = ops[i].fetched[Len(ops[i].fetched)])

\* C5 witness: the third page of a chapter linked back to its second page,
\* and the loop ended there after three iterations.
C5_Witness ==
    /\ ops # <<>>
    /\ ops[1].phase = "returned"
    /\ ops[1].failedAt = 0
    /\ ops[1].iterations = 3
    /\ ops[1].currentUrl = ops[1].fetched[2]

\* C6: a chapter whose first-page fetch failed after all retries gets a
\* result with success = false and the fetch error as its error reason.
C6_EntryFailureIsRecorded ==
    \A i \in DOMAIN promises :
        (promises[i].status = "fulfilled" /\ ops[i].failedAt = 1) =>
            /\ promises[i].value.success = FALSE
            /\ promises[i].value.error = ops[i].failure

\* C7: mergeToFile emits exactly one block per result it is given; a failed
\* result with a recorded reason is rendered as its title and a placeholder
\* holding the reason, a successful one with content as its title and its
\* content.
C7_OneBlockPerResult ==
    pc \in {"merged", "writeFailed"} =>
        /\ Len(doc.blocks) = Len(results)
        /\ \A i \in DOMAIN results :
              LET r == results[i]
                  mine == {k \in DOMAIN doc.blocks : doc.blocks[k].ref = r.ref}
              IN  /\ Cardinality(mine) = 1
                  /\ \A k \in mine :
                        /\ (~r.success /\ Truthy(r.error)) =>
                              doc.blocks[k].text =
                                  r.title \o <<"\n[download failed: ">> \o r.error
                                  \o <<"]", "\n\n", Rule, "\n\n">>
                        /\ (r.success /\ Truthy(r.content)) =>
                              doc.blocks[k].text =
                                  r.title \o <<"\n">> \o r.content
                                  \o <<"\n\n", Rule, "\n\n">>

\* C7 witness: of two results given, the first failed with reason timeout
\* (and carries left-over content), the second succeeded with content.
C7_Witness ==
    /\ pc = "merged"
    /\ Len(results) = 2
    /\ ~results[1].success
    /\ results[1].error = <<"timeout">>
    /\ results[2].success
    /\ Truthy(results[2].content)
    /\ results[2].index < results[1].index

RECURSIVE JoinTexts(_, _)
JoinTexts(texts, separator) ==
    IF texts = <<>> THEN <<>>
    ELSE IF Len(texts) = 1 THEN texts[1]
    ELSE texts[1] \o separator \o JoinTexts(Tail(texts), separator)

NonEmptyText(t) == t # <<>>

\* C8 as stated: the content is the body texts of the pages fetched, in
\* visit order, with one blank-line separator between consecutive pages.
C8_JoinOfAllPages ==
    \A i \in DOMAIN ops :
        ops[i].phase = "returned" =>
            ops[i].ret.content = JoinTexts(ops[i].bodies, <<"\n\n">>)

\* C8 amended: the content is the non-empty body texts of the pages fetched,
\* in visit order, with one blank-line separator between consecutive ones;
\* a page whose body text is empty adds nothing, no separator either.
C8_JoinOfNonEmptyPages ==
    \A i \in DOMAIN ops :
        ops[i].phase = "returned" =>
            ops[i].ret.content =
                JoinTexts(SelectSeq(ops[i].bodies, NonEmptyText), <<"\n\n">>)

\* C8 witness: three pages were fetched, the middle one with an empty body.
C8_Witness ==
    /\ ops # <<>>
    /\ ops[1].phase = "returned"
    /\ ops[1].bodies = << <<"Part1">>, <<>>, <<"Part2">> >>

\* C9: a request whose every attempt fails makes exactly maxAttempts
\* attempts and maxAttempts - 1 waits, then fails with an error whose
\* message ends with the message of the last attempt's error; it never
\* makes more than maxAttempts attempts.
C9_ExhaustedRetries ==
    /\ nRequests <= retryConfig.maxAttempts
    /\ fpc = "threw" =>
          /\ nRequests = retryConfig.maxAttempts
          /\ Len(failLog) = retryConfig.maxAttempts
          /\ Len(waits) = retryConfig.maxAttempts - 1
          /\ fres[Len(fres)] = failLog[Len(failLog)]

\* C9 witness: three attempts failed, the last with another error than the
\* first.
C9_Witness ==
    /\ fpc = "threw"
    /\ retryConfig.maxAttempts = 3
    /\ nRequests = 3
    /\ failLog[1] # failLog[3]

\* The URLs of the scan loop's fetches, and the links of a scanned page.
ScannedUrls == [j \in DOMAIN scanLog |-> scanLog[j].url]

\* C10 as stated: no fetch failure on an index page, the main page
\* included, makes getChapterList fail.
C10_NoIndexFailureIsFatal == lpc # "threw"

\* C10 amended: a fetch failure inside the scan loop (the main URL's scan
\* included) is skipped: every index page is still requested, in order, and
\* the chapters of the pages that arrived are returned; getChapterList
\* fails only when the first fetch of the main page, before the loop, fails.
C10_ScanFailureIsSkipped ==
    /\ lpc = "returned" =>
          /\ ScannedUrls = paginationUrls
          /\ chapters = FirstOfEachKey(seen)
    /\ lpc = "threw" => scanLog = <<>>

\* C10 witness: the scan of the main URL failed, the next page arrived, and
\* its chapters were returned.
C10_Witness ==
    /\ lpc = "returned"
    /\ Len(scanLog) = 2
    /\ ~scanLog[1].ok
    /\ scanLog[2].ok
    /\ chapters # <<>>

\* C11 as stated: the run ends with exit code 1 only when getChapterList
\* returned no chapter or the output file could not be written, so no failed
\* fetch ends it.
C11_FatalOnlyWithoutChaptersOrFile ==
    Fatal => \/ (pc = "noChapters" /\ lpc = "returned" /\ chapters = <<>>)
             \/ pc = "writeFailed"
\* C11, amended: the run ends with exit code 1 only when the main page could
\* not be fetched (for the book's title, or by getChapterList before its scan
\* loop), when no chapter was found, or when the output file could not be
\* written; no failed fetch inside the scan loop or of a chapter page ends it,
\* and a run that found no chapter writes no document.
C11_FatalCauses ==
    /\ Fatal => \/ /\ pc = "fetchFailed"
                    /\ lpc \in {"idle", "threw"}
                    /\ scanLog = <<>>
                    /\ ops = <<>>
                 \/ (pc = "noChapters" /\ lpc = "returned" /\ chapters = <<>>)
                 \/ (pc = "writeFailed" /\ results # <<>>)
    /\ pc = "merged" => chapters # <<>>
C11_Witness ==
    /\ pc = "merged"
    /\ \E k \in DOMAIN scanLog : ~scanLog[k].ok
    /\ \E i \in DOMAIN ops : ops[i].failedAt = 1
    /\ \E i \in DOMAIN ops : ops[i].failedAt = 0

\* downloadAllChapters has returned its results to main.
Returned == pc \in {"collected", "merged", "writeFailed"}

\* C12: when downloadAllChapters returns for N chapters, results holds exactly
\* N entries, their index values are exactly 0..N-1 without duplicate or gap,
\* and the entry of index k is the one of the k-th chapter of the list.
C12_OneResultPerChapter ==
    Returned =>
        /\ Len(results) = Len(chapters)
        /\ \A k \in 0..(Len(chapters) - 1) :
              Cardinality({j \in DOMAIN results : results[j].index = k}) = 1
        /\ \A j \in DOMAIN results :
              /\ results[j].index \in 0..(Len(chapters) - 1)
              /\ results[j].ref = chapters[results[j].index + 1].url
C12_Witness ==
    /\ pc = "collected"
    /\ Len(results) = 3
    /\ ops[1].failedAt = 1
    /\ ops[3].reported < ops[2].reported

SettledOps == {i \in DOMAIN ops : ops[i].phase = "settled"}

\* C19: the progress counter equals the number of settled operations in every
\* state, each operation having raised it once by one at its completion point,
\* so the values reported are 1, 2, ... in increasing order, each once, and N
\* at the end; results stays empty until every operation has settled.
C19_CounterCountsSettled ==
    /\ completed = Cardinality(SettledOps)
    /\ progress = [k \in 1..completed |-> k]
    /\ \A i \in DOMAIN ops :
          IF i \in SettledOps
          THEN ops[i].reported \in 1..completed
          ELSE ops[i].reported = 0
    /\ \A i, j \in SettledOps : ops[i].reported = ops[j].reported => i = j
    /\ results # <<>> => SettledOps = DOMAIN ops /\ completed = Len(chapters)
    /\ pc = "downloading" => results = <<>>
C19_Witness ==
    /\ pc = "downloading"
    /\ Len(ops) = 3
    /\ completed = 2
    /\ SettledOps = {2, 3}
    /\ ops[1].phase = "fetching"

\* C14: the wait after failed attempt number i (0-based) is delays[i] when
\* delays has such an entry and the last entry of delays otherwise.
C14_WaitIsEntryOrLast ==
    \A k \in DOMAIN waits :
        waits[k] = IF k <= Len(retryConfig.delays)
                   THEN retryConfig.delays[k]
                   ELSE retryConfig.delays[Len(retryConfig.delays)]

\* C15: when the fetch of a page after the first fails, downloadChapterPages
\* still returns: the content is what the pages before the error gave,
\* unchanged, and the chapter's result has success = true.
C15_LaterFailureKeepsContent ==
    \A i \in DOMAIN ops :
        ops[i].failedAt > 1 =>
            /\ ops[i].phase \in {"returned", "settled"}
            /\ Len(ops[i].bodies) = ops[i].failedAt - 1
            /\ ops[i].content =
                  JoinTexts(SelectSeq(ops[i].bodies, NonEmptyText), <<"\n\n">>)
            /\ ops[i].ret.content = ops[i].content
            /\ promises[i].status = "fulfilled" =>
                  /\ promises[i].value.success
                  /\ promises[i].value.content = ops[i].content
C15_Witness ==
    /\ ops # <<>>
    /\ ops[1].failedAt = 3
    /\ ops[1].bodies = << <<"Part1">>, <<"Part2">> >>
    /\ promises[1].status = "fulfilled"

\* C16: the title downloadChapterPages returns is the cleaned title of the
\* chapter's first page, or the unknown sentinel when the first page gave
\* none (or never arrived); no later page's title becomes the title.
C16_TitleFromFirstPageOnly ==
    \A i \in DOMAIN ops :
        ops[i].phase = "returned" =>
            ops[i].ret.title =
                IF ops[i].titles # <<>> /\ Truthy(ops[i].titles[1])
                THEN ops[i].titles[1]
                ELSE UnknownTitle

\* C17: no chapter operation exists before getChapterList has returned, and
\* from the call of downloadAllChapters on the list stays what getChapterList
\* returned: one operation per entry, in the list's order, each starting at
\* its entry's URL.
C17_ListFinalBeforeDownloads ==
    /\ ops # <<>> => pc \in {"downloading", "collected", "merged", "writeFailed"}
    /\ pc \in {"start", "downloading", "collected", "merged", "writeFailed"} =>
          /\ lpc = "returned"
          /\ ScannedUrls = paginationUrls
          /\ chapters = FirstOfEachKey(seen)
    /\ pc \in {"downloading", "collected", "merged", "writeFailed"} =>
          /\ Len(ops) = Len(chapters)
          /\ \A i \in DOMAIN ops :
                ops[i].fetched # <<>> => ops[i].fetched[1] = chapters[i].url
C17_Witness ==
    /\ pc = "downloading"
    /\ Len(scanLog) = 2
    /\ Len(chapters) = 2
    /\ Len(seen) > 2
    /\ Len(ops[2].fetched) = 2

\* The distinct elements of a sequence, each at its first place.
RECURSIVE DistinctInOrder(_)
DistinctInOrder(seq) ==
    IF seq = <<>> THEN <<>>
    ELSE LET before == DistinctInOrder(SubSeq(seq, 1, Len(seq) - 1))
             last == seq[Len(seq)]
         IN  IF \E j \in DOMAIN before : before[j] = last
             THEN before
             ELSE Append(before, last)

\* The index pages the main page announces: the main URL, then the URLs of
\* the options that have a value, in document order.
AnnouncedPages ==
    IF navigation.control
    THEN <<MainUrl>> \o
         SelectSeq([k \in DOMAIN navigation.options |->
                       IF Truthy(navigation.options[k])
                       THEN resolveUrl(navigation.options[k], BaseUrl)
                       ELSE Undefined],
                   Truthy)
    ELSE <<MainUrl>>

\* C18: the index pages scanned are the main URL first, then the pagination
\* options in document order without duplicates (the main URL alone when
\* there is no control); the scan requests them one at a time in that order,
\* a page being requested only when every page before it has been answered.
C18_ScanInDocumentOrder ==
    lpc \in {"scanning", "returned"} =>
        /\ paginationUrls = DistinctInOrder(AnnouncedPages)
        /\ ~navigation.control => paginationUrls = <<MainUrl>>
        /\ Len(scanLog) <= Len(paginationUrls)
        /\ ScannedUrls = SubSeq(paginationUrls, 1, Len(scanLog))
        /\ lpc = "scanning" => pageIdx = Len(scanLog) + 1
        /\ lpc = "returned" => Len(scanLog) = Len(paginationUrls)
C18_Witness ==
    /\ lpc = "returned"
    /\ navigation.control
    /\ navigation.options = << <<"p3">>, <<"/", "p2">> >>
    /\ Len(scanLog) = 3
    /\ ~scanLog[2].ok

\* C20: the number of chapters main's summary counts as successful is the
\* number of chapters mergeToFile wrote with their content.
C20_SummaryAgreesWithDocument ==
    pc = "merged" => summary.successCount = doc.successCount

\* The chapter operations the gate has started.
Admitted == {i \in DOMAIN ops : ops[i].phase # "queued"}

====
